---- MODULE Spec2Model ----
(***************************************************************************)
(* The workload (StatefulSet) builder of the RabbitMQ cluster operator,    *)
(* internal/resource/statefulset.go, and the pre-stop hook that the pod    *)
(* template embeds.                                                        *)
(*                                                                         *)
(* Two state machines share the module:                                    *)
(*   Spec / FairSpec  the pre-stop hook running inside a terminating pod,  *)
(*   BuilderSpec      Build / Update of the StatefulSet of one instance.   *)
(***************************************************************************)
EXTENDS Integers, Sequences, FiniteSets, TLC

VARIABLES
    \* ---- the pre-stop hook (a bash loop) ----
    pc,          \* the command of the loop that runs next
    status,      \* $?, the exit status of the last command
    clock,       \* seconds since the pod's termination began
    retries,     \* completed "sleep 2; continue" rounds
    qHist,       \* exit codes of the finished quorum checks, in order
    mHist,       \* exit codes of the finished mirror-sync checks, in order
    iterQuorum,  \* <<code>> of the quorum check of the current iteration
    iterMirror,  \* <<code>> of the mirror check of the current iteration
    settled      \* the node has stopped being critical for good

VARIABLES
    \* ---- the StatefulSet builder and the object it maintains ----
    sts,         \* the StatefulSet: in memory after Build, live after the first write
    exists,      \* Build has produced the object
    built,       \* the object as Build returned it
    instance,    \* the RabbitmqCluster the builder was last given
    scheme,      \* the runtime.Scheme knows the RabbitmqCluster kind
    lastOp,      \* the last operation, see OpKind
    lastErr,     \* the last Build/Update returned an error
    warnings     \* warnings the last Build/Update logged

hookVars == <<pc, status, clock, retries, qHist, mHist, iterQuorum, iterMirror, settled>>

stsVars == <<sts, exists, built, instance, scheme, lastOp, lastErr, warnings>>

vars == <<hookVars, stsVars>>

----------------------------------------------------------------------------
(* Bounds of the model. *)

\* Retries that finish before the deadline in an explored execution.
MaxRetries == 3

\* Longest run time, in seconds, of a diagnostic that answers promptly.
MaxCheckSeconds == 1

----------------------------------------------------------------------------
(* Program constants. *)

\* statefulset.go:19  60 * 60 * 24 * 7
defaultGracePeriodTimeoutSeconds == 60 * 60 * 24 * 7

\* statefulset.go:319, 321  "-eq 69"
Sentinel == 69

\* statefulset.go:319, 321  "sleep 2"
SleepSeconds == 2

\* Exit codes a diagnostic may return: success, the sentinel, a hard failure.
Codes == {0, Sentinel, Sentinel + 1}

\* statefulset.go:167, 175  the grace period the pod template carries
TerminationGracePeriodSeconds == defaultGracePeriodTimeoutSeconds

\* Run times of a diagnostic: at once, promptly, or until shortly before the
\* deadline (a node that answers very late).
CheckSeconds == {0, MaxCheckSeconds, TerminationGracePeriodSeconds - SleepSeconds}

----------------------------------------------------------------------------
(* The pre-stop hook, statefulset.go:317-323:                              *)
(*   while true; do                                                        *)
(*     rabbitmq-queues check_if_node_is_quorum_critical 2>&1;              *)
(*     if [ $(echo $?) -eq 69 ]; then sleep 2; continue; fi;               *)
(*     rabbitmq-queues check_if_node_is_mirror_sync_critical 2>&1;         *)
(*     if [ $(echo $?) -eq 69 ]; then sleep 2; continue; fi;               *)
(*     break;                                                              *)
(*   done                                                                  *)

Alive == pc \notin {"returned", "killed"}

\* The exit codes the environment can hand to a check that finishes now.
\* Once the node has settled no check is critical any more; a sentinel that
\* leads to one more retry is explored while retries < MaxRetries.
Answers ==
    {c \in Codes : (c = Sentinel) => (~settled /\ retries < MaxRetries)}

HookInit ==
    /\ pc = "quorum"
    /\ status = 0
    /\ clock = 0
    /\ retries = 0
    /\ qHist = <<>>
    /\ mHist = <<>>
    /\ iterQuorum = <<>>
    /\ iterMirror = <<>>
    /\ settled = FALSE

\* rabbitmq-queues check_if_node_is_quorum_critical 2>&1
RunQuorum(code, d) ==
    /\ pc = "quorum"
    /\ clock + d < TerminationGracePeriodSeconds
    /\ pc' = "testQuorum"
    /\ status' = code
    /\ clock' = clock + d
    /\ qHist' = Append(qHist, code)
    /\ iterQuorum' = <<code>>
    /\ iterMirror' = <<>>
    /\ UNCHANGED <<retries, mHist, settled, stsVars>>

\* if [ $(echo $?) -eq 69 ]; then ... fi   (after the quorum check)
TestQuorum ==
    /\ pc = "testQuorum"
    /\ pc' = IF status = Sentinel THEN "sleepQuorum" ELSE "mirror"
    /\ status' = 0
    /\ UNCHANGED <<clock, retries, qHist, mHist, iterQuorum, iterMirror, settled, stsVars>>

\* Mutant: the "continue" is missing, the loop goes on to the mirror check.
SleepQuorum_noContinue ==
    /\ pc = "sleepQuorum"
    /\ clock + SleepSeconds < TerminationGracePeriodSeconds
    /\ clock' = clock + SleepSeconds
    /\ retries' = retries + 1
    /\ pc' = "mirror"
    /\ status' = 0
    /\ UNCHANGED <<qHist, mHist, iterQuorum, iterMirror, settled, stsVars>>

\* sleep 2; continue   (after the quorum check)
SleepQuorum ==
    /\ pc = "sleepQuorum"
    /\ clock + SleepSeconds < TerminationGracePeriodSeconds
    /\ clock' = clock + SleepSeconds
    /\ retries' = retries + 1
    /\ pc' = "quorum"
    /\ status' = 0
    /\ UNCHANGED <<qHist, mHist, iterQuorum, iterMirror, settled, stsVars>>

\* rabbitmq-queues check_if_node_is_mirror_sync_critical 2>&1
RunMirror(code, d) ==
    /\ pc = "mirror"
    /\ clock + d < TerminationGracePeriodSeconds
    /\ pc' = "testMirror"
    /\ status' = code
    /\ clock' = clock + d
    /\ mHist' = Append(mHist, code)
    /\ iterMirror' = <<code>>
    /\ UNCHANGED <<retries, qHist, iterQuorum, settled, stsVars>>

\* Mutant: the test after the mirror check compares with another code.
TestMirror_wrongCode ==
    /\ pc = "testMirror"
    /\ pc' = IF status = Sentinel + 1 THEN "sleepMirror" ELSE "returned"
    /\ status' = 0
    /\ UNCHANGED <<clock, retries, qHist, mHist, iterQuorum, iterMirror, settled, stsVars>>

\* if [ $(echo $?) -eq 69 ]; then ... fi; break   (after the mirror check)
TestMirror ==
    /\ pc = "testMirror"
    /\ pc' = IF status = Sentinel THEN "sleepMirror" ELSE "returned"
    /\ status' = 0
    /\ UNCHANGED <<clock, retries, qHist, mHist, iterQuorum, iterMirror, settled, stsVars>>

\* Mutant: the "sleep 2" is missing, the loop retries at once.
SleepMirror_noSleep ==
    /\ pc = "sleepMirror"
    /\ retries' = retries + 1
    /\ pc' = "quorum"
    /\ status' = 0
    /\ UNCHANGED <<clock, qHist, mHist, iterQuorum, iterMirror, settled, stsVars>>

\* sleep 2; continue   (after the mirror check)
SleepMirror ==
    /\ pc = "sleepMirror"
    /\ clock + SleepSeconds < TerminationGracePeriodSeconds
    /\ clock' = clock + SleepSeconds
    /\ retries' = retries + 1
    /\ pc' = "quorum"
    /\ status' = 0
    /\ UNCHANGED <<qHist, mHist, iterQuorum, iterMirror, settled, stsVars>>

\* The orchestrator: when the grace period elapses the pod is killed, whatever
\* the hook is doing.  A check may block until then; a sleep is cut short when
\* the deadline falls inside it.
ForceTerminate ==
    /\ Alive
    /\ \/ pc \in {"quorum", "mirror"}
       \/ /\ pc \in {"sleepQuorum", "sleepMirror"}
          /\ clock + SleepSeconds >= TerminationGracePeriodSeconds
    /\ pc' = "killed"
    /\ clock' = TerminationGracePeriodSeconds
    /\ UNCHANGED <<status, retries, qHist, mHist, iterQuorum, iterMirror, settled, stsVars>>

\* The environment: the node stops being critical and stays so.
Settle ==
    /\ Alive
    /\ ~settled
    /\ settled' = TRUE
    /\ UNCHANGED <<pc, status, clock, retries, qHist, mHist, iterQuorum, iterMirror, stsVars>>

\* One step of the shell.
HookStep ==
    \/ \E code \in Answers, d \in CheckSeconds : RunQuorum(code, d)
    \/ TestQuorum
    \/ SleepQuorum
    \/ \E code \in Answers, d \in CheckSeconds : RunMirror(code, d)
    \/ TestMirror
    \/ SleepMirror

----------------------------------------------------------------------------
(* Data of the builder model. *)

\* A Go pointer or optional value: <<>> is nil, <<x>> points to x.
Nil == <<>>

Ptr(x) == <<x>>

\* A Go map[string]string: a function from its keys.
EmptyMap == <<>>

Map1(k, v) == [x \in {k} |-> v]

\* base overridden by over.
Merge(base, over) ==
    [k \in DOMAIN base \cup DOMAIN over |->
        IF k \in DOMAIN over THEN over[k] ELSE base[k]]

\* corev1.ResourceRequirements of a container whose memory limit is l and
\* memory request is r, each a quantity in units of 1Gi; 0 leaves the entry out.
MemoryList(q) == IF q = 0 THEN EmptyMap ELSE Map1("memory", q)

Resources(l, r) == [limits |-> MemoryList(l), requests |-> MemoryList(r)]

\* ResourceList.Memory(): the memory entry, or the zero quantity.
Memory(list) == IF "memory" \in DOMAIN list THEN list["memory"] ELSE 0

\* The RabbitmqCluster the examples of the specification use.
BaseInstance ==
    [ name             |-> "my-cluster",
      namespace        |-> "default",
      uid              |-> "uid-my-cluster",
      labels           |-> EmptyMap,
      annotations      |-> EmptyMap,
      replicas         |-> 3,
      image            |-> "broker:3.8.9",
      imagePullSecret  |-> "",
      resources        |-> Resources(2, 2),
      affinity         |-> Nil,
      tolerations      |-> <<>>,
      storage          |-> "10Gi",
      storageClassName |-> Nil ]

\* The other values each field of the instance takes in the model.
FieldValues ==
    [ labels           |-> {EmptyMap, Map1("tier", "db")},
      annotations      |-> {EmptyMap, Map1("team", "a"), Map1("team", "b")},
      replicas         |-> {1, 3},
      image            |-> {"broker:3.8.9", "broker:3.8.10"},
      imagePullSecret  |-> {"", "regcred"},
      resources        |-> {Resources(2, 2), Resources(1, 2),
                            Resources(2, 1), Resources(0, 0)},
      affinity         |-> {Nil, Ptr("zone-a")},
      tolerations      |-> {<<>>, <<"dedicated">>},
      storage          |-> {"10Gi", "20Gi"},
      storageClassName |-> {Nil, Ptr("fast")} ]

SpecFields == DOMAIN FieldValues

\* Fields in which two instances differ.
Differing(a, b) == {f \in SpecFields : a[f] # b[f]}

\* An instance that uses every optional field, with a memory limit below the
\* memory request.
FullInstance ==
    [ name             |-> "my-cluster",
      namespace        |-> "default",
      uid              |-> "uid-my-cluster",
      labels           |-> Map1("tier", "db"),
      annotations      |-> Map1("team", "a"),
      replicas         |-> 3,
      image            |-> "broker:3.8.10",
      imagePullSecret  |-> "regcred",
      resources        |-> Resources(1, 2),
      affinity         |-> Ptr("zone-a"),
      tolerations      |-> <<"dedicated">>,
      storage          |-> "20Gi",
      storageClassName |-> Ptr("fast") ]

\* The instances the builder is given: the two above and every instance that
\* differs from one of them in a single field.
Specs ==
    UNION {{corner} \cup
           UNION {{[corner EXCEPT ![f] = v] : v \in FieldValues[f]} : f \in SpecFields}
           : corner \in {BaseInstance, FullInstance}}

----------------------------------------------------------------------------
(* Collaborators of the builder that live outside statefulset.go. *)

\* RabbitmqCluster.ChildResourceName: <instance>-rabbitmq-<name>, kept as its parts.
ChildResourceName(inst, name) == <<inst.name, "rabbitmq", name>>

\* kubectl-rabbitmq observe <instance> <ordinal>: the pod the command-line tool
\* addresses, "${1}-rabbitmq-server-${2}", kept as its parts.
observe(instanceName, ordinal) == <<instanceName, "rabbitmq", "server", ordinal>>

\* The pod with the given ordinal of a StatefulSet: <name>-<ordinal>.
PodName(s, ordinal) == Append(s.name, ordinal)

\* metadata.Label: the labels every child object of the instance carries.
Label(instanceName) ==
    [k \in {"app.kubernetes.io/name", "app.kubernetes.io/component"} |->
        IF k = "app.kubernetes.io/name" THEN instanceName ELSE "rabbitmq"]

\* metadata.LabelSelector: what selects the pods of the instance.
LabelSelector(instanceName) == Map1("app.kubernetes.io/name", instanceName)

\* metadata.GetLabels: the instance's own labels under the operator's labels.
GetLabels(instanceName, instanceLabels) == Merge(instanceLabels, Label(instanceName))

\* The annotation keys the controller manages: those an instance can supply.
ManagedAnnotationKeys == {"team"}

\* metadata.ReconcileAnnotations: managed keys take the desired value (and go
\* when no longer desired), every other existing key stays.
ReconcileAnnotations(existing, desired) ==
    [k \in (DOMAIN existing \ ManagedAnnotationKeys) \cup DOMAIN desired |->
        IF k \in DOMAIN desired THEN desired[k] ELSE existing[k]]

\* The controller reference SetControllerReference builds for an owner.
ControllerRef(owner) ==
    [ kind       |-> "RabbitmqCluster",
      name       |-> owner.name,
      uid        |-> owner.uid,
      controller |-> TRUE ]

\* referSameObject: same kind and name (the UID is not compared).
ReferSameObject(a, b) == a.kind = b.kind /\ a.name = b.name

\* controllerutil.SetControllerReference on a list of owner references: fails
\* when the scheme does not know the owner's kind or another controller owns
\* the object; otherwise the owner's reference replaces its old one or is added.
SetControllerReference(owner, refs, schemeOK) ==
    LET ref  == ControllerRef(owner)
        mine == {i \in DOMAIN refs : ReferSameObject(refs[i], ref)}
    IN  IF ~schemeOK
        THEN [refs |-> refs, err |-> TRUE]
        ELSE IF \E i \in DOMAIN refs : refs[i].controller /\ i \notin mine
        THEN [refs |-> refs, err |-> TRUE]
        ELSE IF mine = {}
        THEN [refs |-> Append(refs, ref), err |-> FALSE]
        ELSE LET fi == CHOOSE i \in mine : \A j \in mine : i <= j
             IN  [refs |-> [refs EXCEPT ![fi] = ref], err |-> FALSE]

----------------------------------------------------------------------------
(* statefulset.go *)

\* statefulset.go:20-21, 90-97  ParseQuantity of the two constant strings
initContainerCPU == "100m"

initContainerMemory == "500Mi"

\* The zero corev1.ResourceRequirements.
NoResources == [limits |-> EmptyMap, requests |-> EmptyMap]

\* statefulset.go:162-381
podTemplateSpec(inst) ==
    [ labels      |-> EmptyMap,
      annotations |-> EmptyMap,
      spec |->
        [ securityContext |-> [fsGroup |-> 999, runAsGroup |-> 999, runAsUser |-> 999],
          terminationGracePeriodSeconds |-> Ptr(defaultGracePeriodTimeoutSeconds),
          serviceAccountName |-> ChildResourceName(inst, "server"),
          automountServiceAccountToken |-> Ptr(TRUE),
          initContainers |->
            << [ name         |-> "copy-config",
                 image        |-> "",
                 resources    |-> NoResources,
                 ports        |-> <<>>,
                 volumeMounts |-> <<"server-conf", "rabbitmq-etc",
                                    "rabbitmq-erlang-cookie", "erlang-cookie-secret">>,
                 readinessProbe |-> Nil,
                 preStop      |-> Nil ] >>,
          containers |->
            << [ name         |-> "rabbitmq",
                 image        |-> "",
                 resources    |-> NoResources,
                 ports        |-> << [name |-> "epmd", containerPort |-> 4369],
                                     [name |-> "amqp", containerPort |-> 5672],
                                     [name |-> "http", containerPort |-> 15672],
                                     [name |-> "prometheus", containerPort |-> 15692] >>,
                 volumeMounts |-> <<"server-conf", "rabbitmq-admin", "persistence",
                                    "rabbitmq-etc", "rabbitmq-erlang-cookie">>,
                 readinessProbe |-> Ptr([ initialDelaySeconds |-> 10,
                                          timeoutSeconds      |-> 5,
                                          periodSeconds       |-> 30,
                                          successThreshold    |-> 1,
                                          failureThreshold    |-> 3 ]),
                 preStop      |-> Ptr([ sentinel |-> Sentinel,
                                        sleep    |-> SleepSeconds ]) ] >>,
          volumes |-> <<"rabbitmq-admin", "server-conf", "rabbitmq-etc",
                        "rabbitmq-erlang-cookie", "erlang-cookie-secret">>,
          imagePullSecrets |-> <<>>,
          affinity    |-> Nil,
          tolerations |-> <<>>,
          nodeSelector |-> EmptyMap ] ]

\* The zero corev1.PodTemplateSpec.
ZeroTemplate ==
    [ labels      |-> EmptyMap,
      annotations |-> EmptyMap,
      spec |->
        [ securityContext |-> [fsGroup |-> 0, runAsGroup |-> 0, runAsUser |-> 0],
          terminationGracePeriodSeconds |-> Nil,
          serviceAccountName |-> <<>>,
          automountServiceAccountToken |-> Nil,
          initContainers |-> <<>>,
          containers |-> <<>>,
          volumes |-> <<>>,
          imagePullSecrets |-> <<>>,
          affinity    |-> Nil,
          tolerations |-> <<>>,
          nodeSelector |-> EmptyMap ] ]

\* The zero appsv1.StatefulSet.
ZeroStatefulSet ==
    [ name            |-> <<>>,
      namespace       |-> "",
      labels          |-> EmptyMap,
      annotations     |-> EmptyMap,
      ownerReferences |-> <<>>,
      spec |->
        [ replicas             |-> Nil,
          serviceName          |-> <<>>,
          selector             |-> EmptyMap,
          volumeClaimTemplates |-> <<>>,
          template             |-> ZeroTemplate ] ]

\* Mutant: the claim may also be mounted read-write by many nodes.
persistentVolumeClaim_readWriteMany(inst, schemeOK) ==
    LET pvc == [ name             |-> "persistence",
                 namespace        |-> inst.namespace,
                 labels           |-> Label(inst.name),
                 annotations      |-> ReconcileAnnotations(EmptyMap, inst.annotations),
                 ownerReferences  |-> <<>>,
                 storage          |-> inst.storage,
                 accessModes      |-> <<"ReadWriteOnce", "ReadWriteMany">>,
                 storageClassName |-> inst.storageClassName ]
        set == SetControllerReference(inst, pvc.ownerReferences, schemeOK)
    IN  IF set.err
        THEN [pvc |-> <<>>, err |-> TRUE]
        ELSE [pvc |-> <<[pvc EXCEPT !.ownerReferences = set.refs]>>, err |-> FALSE]

\* statefulset.go:136-160
persistentVolumeClaim(inst, schemeOK) ==
    LET pvc == [ name             |-> "persistence",
                 namespace        |-> inst.namespace,
                 labels           |-> Label(inst.name),
                 annotations      |-> ReconcileAnnotations(EmptyMap, inst.annotations),
                 ownerReferences  |-> <<>>,
                 storage          |-> inst.storage,
                 accessModes      |-> <<"ReadWriteOnce">>,
                 storageClassName |-> inst.storageClassName ]
        set == SetControllerReference(inst, pvc.ownerReferences, schemeOK)
    IN  IF set.err
        THEN [pvc |-> <<>>, err |-> TRUE]
        ELSE [pvc |-> <<[pvc EXCEPT !.ownerReferences = set.refs]>>, err |-> FALSE]

\* statefulset.go:40-60
statefulSet(inst, schemeOK) ==
    LET claim == persistentVolumeClaim(inst, schemeOK)
    IN  IF claim.err
        THEN [obj |-> ZeroStatefulSet, err |-> TRUE]
        ELSE [ obj |-> [ZeroStatefulSet EXCEPT
                          !.name      = ChildResourceName(inst, "server"),
                          !.namespace = inst.namespace,
                          !.spec.serviceName = ChildResourceName(inst, "headless"),
                          !.spec.selector    = LabelSelector(inst.name),
                          !.spec.volumeClaimTemplates = claim.pvc],
               err |-> FALSE ]

\* Mutant: the warning is logged only when the limit exceeds the request.
memoryWarnings_limitAbove(resources) ==
    IF Memory(resources.limits) > Memory(resources.requests) THEN 1 ELSE 0

\* statefulset.go:114-117  one warning when memory limit and request differ
memoryWarnings(resources) ==
    IF Memory(resources.limits) # Memory(resources.requests) THEN 1 ELSE 0

\* statefulset.go:78-133  what setStatefulSetParams applies once ownership is set
applyParams(inst, s) ==
    LET updatedLabels == GetLabels(inst.name, inst.labels)
        initResources ==
            [ limits   |-> [k \in {"cpu", "memory"} |->
                              IF k = "cpu" THEN initContainerCPU ELSE initContainerMemory],
              requests |-> [k \in {"cpu", "memory"} |->
                              IF k = "cpu" THEN initContainerCPU ELSE initContainerMemory] ]
        pullSecrets ==
            IF inst.imagePullSecret # "" THEN <<inst.imagePullSecret>> ELSE <<>>
    IN  [ obj |-> [s EXCEPT
                     !.labels = updatedLabels,
                     !.spec.template.labels = updatedLabels,
                     !.spec.replicas = Ptr(inst.replicas),
                     !.spec.template.spec.initContainers[1].resources = initResources,
                     !.spec.template.spec.containers[1].resources = inst.resources,
                     !.spec.template.spec.initContainers[1].image = inst.image,
                     !.spec.template.spec.containers[1].image = inst.image,
                     !.spec.template.spec.imagePullSecrets = pullSecrets,
                     !.spec.template.spec.affinity = inst.affinity,
                     !.spec.template.spec.tolerations = inst.tolerations],
          err |-> FALSE,
          warnings |-> memoryWarnings(inst.resources) ]

\* Mutant: the controller reference is appended by hand on every call.
setStatefulSetParams_appendsOwner(inst, s, schemeOK) ==
    LET set == SetControllerReference(inst, s.ownerReferences, schemeOK)
    IN  IF set.err
        THEN [obj |-> s, err |-> TRUE, warnings |-> 0]
        ELSE applyParams(inst, [s EXCEPT !.ownerReferences =
                                    Append(s.ownerReferences, ControllerRef(inst))])

\* Mutant: the error of SetControllerReference is dropped.
setStatefulSetParams_ignoresOwnerError(inst, s, schemeOK) ==
    LET set == SetControllerReference(inst, s.ownerReferences, schemeOK)
    IN  applyParams(inst, [s EXCEPT !.ownerReferences = set.refs])

\* statefulset.go:72-134
setStatefulSetParams(inst, s, schemeOK) ==
    LET set == SetControllerReference(inst, s.ownerReferences, schemeOK)
    IN  IF set.err
        THEN [obj |-> s, err |-> TRUE, warnings |-> 0]
        ELSE applyParams(inst, [s EXCEPT !.ownerReferences = set.refs])

\* Mutant: Update also re-applies the selector, from the full label set.
Update_resetsSelector(inst, s, schemeOK) ==
    LET podAnnotations ==
            ReconcileAnnotations(s.spec.template.annotations, inst.annotations)
        annotations == ReconcileAnnotations(s.annotations, inst.annotations)
        s1 == [s EXCEPT !.spec.template = podTemplateSpec(inst),
                        !.spec.selector = GetLabels(inst.name, inst.labels)]
        s2 == [s1 EXCEPT !.spec.template.annotations = podAnnotations]
        s3 == [s2 EXCEPT !.annotations = annotations]
    IN  setStatefulSetParams(inst, s3, schemeOK)

\* Mutant: Update regenerates the claim templates from the current instance.
Update_rebuildsClaims(inst, s, schemeOK) ==
    LET podAnnotations ==
            ReconcileAnnotations(s.spec.template.annotations, inst.annotations)
        annotations == ReconcileAnnotations(s.annotations, inst.annotations)
        s1 == [s EXCEPT !.spec.template = podTemplateSpec(inst),
                        !.spec.volumeClaimTemplates =
                            persistentVolumeClaim(inst, schemeOK).pvc]
        s2 == [s1 EXCEPT !.spec.template.annotations = podAnnotations]
        s3 == [s2 EXCEPT !.annotations = annotations]
    IN  setStatefulSetParams(inst, s3, schemeOK)

\* statefulset.go:62-70
Update(inst, s, schemeOK) ==
    LET podAnnotations ==
            ReconcileAnnotations(s.spec.template.annotations, inst.annotations)
        annotations == ReconcileAnnotations(s.annotations, inst.annotations)
        s1 == [s EXCEPT !.spec.template = podTemplateSpec(inst)]
        s2 == [s1 EXCEPT !.spec.template.annotations = podAnnotations]
        s3 == [s2 EXCEPT !.annotations = annotations]
    IN  setStatefulSetParams(inst, s3, schemeOK)

----------------------------------------------------------------------------
(* The builder's state machine: the reconciler builds the object when it is  *)
(* absent and updates it on every pass; other parties write to the live      *)
(* object in between.                                                        *)

\* The operations on an object that was built.  An Update is told apart by what
\* came before it: "First" follows Build; "Repeat" follows an Update with the
\* same instance; "Scale" follows an Update with an instance that differs in
\* the replica count alone; any other is "Update".
Updates == {"First", "Update", "Repeat", "Scale"}

OpKind(last, old, new) ==
    IF last = "Build" THEN "First"
    ELSE IF last \in Updates /\ new = old THEN "Repeat"
    ELSE IF last \in Updates /\ Differing(old, new) = {"replicas"} THEN "Scale"
    ELSE "Update"

BuilderInit ==
    /\ sts = ZeroStatefulSet
    /\ exists = FALSE
    /\ built = ZeroStatefulSet
    /\ instance \in Specs
    /\ scheme \in BOOLEAN
    /\ lastOp = "none"
    /\ lastErr = FALSE
    /\ warnings = 0

\* Build(): statefulset.go:36-38
DoBuild ==
    /\ ~exists
    /\ LET r == statefulSet(instance, scheme)
       IN  /\ sts' = IF r.err THEN sts ELSE r.obj
           /\ built' = IF r.err THEN built ELSE r.obj
           /\ exists' = ~r.err
           /\ lastErr' = r.err
    /\ lastOp' = "Build"
    /\ warnings' = 0
    /\ UNCHANGED <<instance, scheme, hookVars>>

\* Update(object) by a builder made for inst
DoUpdate(inst) ==
    /\ exists
    /\ LET r == Update(inst, sts, scheme)
       IN  /\ sts' = r.obj
           /\ lastErr' = r.err
           /\ warnings' = r.warnings
    /\ instance' = inst
    /\ lastOp' = OpKind(lastOp, instance, inst)
    /\ UNCHANGED <<exists, built, scheme, hookVars>>

\* Another party has written to the live object.
External(new) ==
    /\ exists
    /\ lastOp \in Updates \cup {"External"}
    /\ new # sts
    /\ sts' = new
    /\ lastOp' = "External"
    /\ lastErr' = FALSE
    /\ warnings' = 0
    /\ UNCHANGED <<exists, built, instance, scheme, hookVars>>

\* another party annotates the StatefulSet and its pod template
ExternalAnnotate ==
    External([sts EXCEPT
        !.annotations = Merge(@, Map1("other/owner", "x")),
        !.spec.template.annotations = Merge(@, Map1("other/restart", "x"))])

\* a user labels the StatefulSet
ExternalLabel ==
    External([sts EXCEPT !.labels = Merge(@, Map1("other/team", "x"))])

\* a sidecar injector adds a container and its volume to the pod template and
\* sets a pod-template field the builder never writes
ExternalSidecar ==
    /\ Len(sts.spec.template.spec.containers) = 1
    /\ External([sts EXCEPT
           !.spec.template.spec.containers =
               Append(@, [ name |-> "sidecar", image |-> "proxy:1",
                           resources |-> NoResources, ports |-> <<>>,
                           volumeMounts |-> <<"sidecar-data">>,
                           readinessProbe |-> Nil, preStop |-> Nil ]),
           !.spec.template.spec.volumes = Append(@, "sidecar-data"),
           !.spec.template.spec.nodeSelector = Map1("disk", "ssd")])

\* another object is recorded as an owner; isController: it claims control
ExternalOwner(isController) ==
    /\ \A i \in DOMAIN sts.ownerReferences : sts.ownerReferences[i].kind # "Backup"
    /\ External([sts EXCEPT !.ownerReferences =
           Append(@, [ kind |-> "Backup", name |-> "nightly", uid |-> "uid-backup",
                       controller |-> isController ])])

----------------------------------------------------------------------------
(* Specifications. *)

Next ==
    \/ \E code \in Answers, d \in CheckSeconds : RunQuorum(code, d)
    \/ TestQuorum
    \/ SleepQuorum
    \/ \E code \in Answers, d \in CheckSeconds : RunMirror(code, d)
    \/ TestMirror
    \/ SleepMirror
    \/ ForceTerminate
    \/ Settle

\* The builder is idle while the hook of a pod runs.
Init == HookInit /\ BuilderInit /\ instance = BaseInstance /\ scheme = TRUE

Spec == Init /\ [][Next]_vars

\* The shell keeps executing its loop, and the orchestrator does kill the pod
\* once the grace period is over.
FairSpec == Spec /\ WF_vars(HookStep) /\ WF_vars(ForceTerminate)

BuilderNext ==
    \/ DoBuild
    \/ \E inst \in Specs : DoUpdate(inst)
    \/ ExternalAnnotate
    \/ ExternalLabel
    \/ ExternalSidecar
    \/ \E isController \in BOOLEAN : ExternalOwner(isController)

\* No pod is terminating while the builder is exercised.
BuilderSpecInit == HookInit /\ BuilderInit

BuilderSpec == BuilderSpecInit /\ [][BuilderNext]_vars

----------------------------------------------------------------------------
(* Properties of the pre-stop hook. *)

Sleeping == pc \in {"sleepQuorum", "sleepMirror"}

\* The check of the current iteration whose code is in iter was critical.
SawSentinel(iter) == iter # <<>> /\ iter[1] = Sentinel

\* The check of the current iteration whose code is in iter ran and was not critical.
SawSafe(iter) == iter # <<>> /\ iter[1] # Sentinel

\* C1: the hook returns only at the end of an iteration in which the quorum
\* check and then the mirror check returned a code other than 69; it never
\* returns in an iteration in which a check returned 69; a 69 from either
\* check leads to the 2-second sleep and from there back to the quorum check.
C1_ReturnsOnlyWhenBothSafe ==
    /\ [](pc = "returned" => SawSafe(iterQuorum) /\ SawSafe(iterMirror))
    /\ [][ /\ (SawSentinel(iterQuorum) \/ SawSentinel(iterMirror)) => pc' # "returned"
           /\ (pc = "testQuorum" /\ status = Sentinel /\ pc' # pc) => pc' = "sleepQuorum"
           /\ (pc = "testMirror" /\ status = Sentinel /\ pc' # pc) => pc' = "sleepMirror"
           /\ (pc' = "sleepQuorum" /\ pc # pc') => SawSentinel(iterQuorum)
           /\ (pc' = "sleepMirror" /\ pc # pc') => SawSentinel(iterMirror)
           /\ (Sleeping /\ pc' \notin {pc, "killed"}) =>
                  pc' = "quorum" /\ clock' = clock + SleepSeconds ]_vars

\* The hook has returned after both checks had been critical before.
C1_Witness ==
    /\ pc = "returned"
    /\ \E i \in DOMAIN qHist : qHist[i] = Sentinel
    /\ \E i \in DOMAIN mHist : mHist[i] = Sentinel

\* The answers h are those of a diagnostic that returns the sentinel on its
\* first k invocations and another code on every later one.
Mocked(h, k) == \A i \in DOMAIN h : (h[i] = Sentinel) <=> (i <= k)

C9_HookEnds ==
    /\ [](/\ podTemplateSpec(BaseInstance).spec.terminationGracePeriodSeconds
                = Ptr(TerminationGracePeriodSeconds)
          /\ TerminationGracePeriodSeconds = 604800
          /\ clock <= TerminationGracePeriodSeconds
          /\ SleepSeconds * retries <= clock
          /\ (Alive => clock < TerminationGracePeriodSeconds)
          /\ (pc = "killed" => clock = TerminationGracePeriodSeconds))
    /\ (settled ~> ~Alive)
    /\ <>(~Alive)

\* The loop retried as often as the model follows it and was then cut off by
\* the end of the grace period.
C9_Witness ==
    /\ pc = "killed"
    /\ retries = MaxRetries
    /\ ~settled
    /\ clock = TerminationGracePeriodSeconds

----------------------------------------------------------------------------
(* Properties of the builder. *)

\* The fields Build sets.
Identity(s) ==
    [ name                 |-> s.name,
      namespace            |-> s.namespace,
      serviceName          |-> s.spec.serviceName,
      selector             |-> s.spec.selector,
      volumeClaimTemplates |-> s.spec.volumeClaimTemplates ]

\* The controller references in refs.
Controllers(refs) == {i \in DOMAIN refs : refs[i].controller}

\* Another controller owns an object with the owner references refs.
OwnedByAnother(refs, inst) ==
    \E i \in Controllers(refs) : ~ReferSameObject(refs[i], ControllerRef(inst))

\* refs holds exactly one controller reference, the one to inst.
OneControllerRef(refs, inst) ==
    /\ Cardinality(Controllers(refs)) = 1
    /\ \A i \in Controllers(refs) : refs[i] = ControllerRef(inst)

\* C3: Update called twice in succession with an unchanged instance leaves the
\* object after the second call equal to the object after the first.
C3_SecondUpdateChangesNothing ==
    [][lastOp' = "Repeat" => sts' = sts]_vars

\* A second Update with the same instance has run on an object that carries an
\* annotation and an owner of another party and a pull secret.
C3_Witness ==
    /\ lastOp = "Repeat"
    /\ ~lastErr
    /\ "other/owner" \in DOMAIN sts.annotations
    /\ Len(sts.ownerReferences) = 2
    /\ Len(sts.spec.template.spec.imagePullSecrets) = 1

\* C4, as claimed: after Build and the Update that follows it the object equals
\* the object Build returned.
C4_BuildThenUpdateNoDiff ==
    lastOp = "First" => sts = built

\* C4, amended: the Update that follows Build leaves the fields Build set as
\* built and fills in the others; a second Update with the same instance then
\* changes nothing.
C4_UpdateCompletesBuild ==
    /\ [](lastOp = "First" => Identity(sts) = Identity(built))
    /\ [](lastOp = "First" /\ ~lastErr =>
             /\ sts.spec.replicas = Ptr(instance.replicas)
             /\ Len(sts.spec.template.spec.containers) = 1
             /\ OneControllerRef(sts.ownerReferences, instance))
    /\ [][lastOp = "First" /\ lastOp' = "Repeat" => sts' = sts]_vars

\* Update has run on a freshly built object and has changed it.
C4_Witness ==
    /\ lastOp = "First"
    /\ ~lastErr
    /\ sts # built

\* C5: whatever Updates have run, with whatever instances, ServiceName,
\* Selector and VolumeClaimTemplates are what Build set; and an Update whose
\* instance differs from that of the Update before it in the replica count
\* alone changes no field but Spec.Replicas.
C5_OnlyReplicasChange ==
    /\ [](exists =>
             /\ sts.spec.serviceName = built.spec.serviceName
             /\ sts.spec.selector = built.spec.selector
             /\ sts.spec.volumeClaimTemplates = built.spec.volumeClaimTemplates)
    /\ [][lastOp' = "Scale" =>
             /\ [sts' EXCEPT !.spec.replicas = sts.spec.replicas] = sts
             /\ ~lastErr' => sts'.spec.replicas = Ptr(instance'.replicas)]_vars

\* An Update that changed the replica count alone has run, for an instance
\* whose persistence differs from the one the object was built with.
C5_Witness ==
    /\ lastOp = "Scale"
    /\ ~lastErr
    /\ sts.spec.volumeClaimTemplates[1].storage # instance.storage
    /\ sts.spec.volumeClaimTemplates[1].storageClassName # instance.storageClassName

\* A container of old other than the builder's own is still in new.
ContainersKept(old, new) ==
    \A i \in DOMAIN old : i > 1 => \E j \in DOMAIN new : new[j] = old[i]

\* A volume of old that the builder does not declare is still in new.
VolumesKept(old, new, inst) ==
    \A i \in DOMAIN old :
        (\A j \in DOMAIN podTemplateSpec(inst).spec.volumes :
             podTemplateSpec(inst).spec.volumes[j] # old[i])
        => \E j \in DOMAIN new : new[j] = old[i]

\* The keys of old outside managed are in new with their values.
KeysKept(old, new, managed) ==
    \A k \in DOMAIN old \ managed : k \in DOMAIN new /\ new[k] = old[k]

\* C6, as claimed: Update keeps what other parties wrote outside the mutable
\* set: their containers, volumes and pod-template fields, their annotations
\* and owner references, and the fields Build set.
C6_UpdateKeepsForeignFields ==
    [][lastOp' \in Updates =>
          /\ ContainersKept(sts.spec.template.spec.containers,
                            sts'.spec.template.spec.containers)
          /\ VolumesKept(sts.spec.template.spec.volumes,
                         sts'.spec.template.spec.volumes, instance')
          /\ sts'.spec.template.spec.nodeSelector = sts.spec.template.spec.nodeSelector
          /\ KeysKept(sts.annotations, sts'.annotations, ManagedAnnotationKeys)
          /\ \A i \in DOMAIN sts.ownerReferences :
                 sts.ownerReferences[i].kind # "RabbitmqCluster" =>
                     \E j \in DOMAIN sts'.ownerReferences :
                         sts'.ownerReferences[j] = sts.ownerReferences[i]
          /\ Identity(sts') = Identity(sts)]_vars

\* The label keys the controller manages: its own and those an instance supplies.
ManagedLabelKeys ==
    DOMAIN Label(BaseInstance.name) \cup UNION {DOMAIN l : l \in FieldValues.labels}

\* C7, as claimed: a label or annotation key of the live object or of its pod
\* template that the controller does not manage keeps its value across Update,
\* and every managed key holds the desired value after a successful Update.
C7_UnmanagedKeysSurvive ==
    [][lastOp' \in Updates =>
          /\ KeysKept(sts.labels, sts'.labels, ManagedLabelKeys)
          /\ KeysKept(sts.spec.template.labels, sts'.spec.template.labels,
                      ManagedLabelKeys)
          /\ KeysKept(sts.annotations, sts'.annotations, ManagedAnnotationKeys)
          /\ KeysKept(sts.spec.template.annotations, sts'.spec.template.annotations,
                      ManagedAnnotationKeys)
          /\ ~lastErr' =>
                /\ \A k \in DOMAIN GetLabels(instance'.name, instance'.labels) :
                       /\ k \in DOMAIN sts'.labels
                       /\ sts'.labels[k] = GetLabels(instance'.name, instance'.labels)[k]
                /\ \A k \in DOMAIN instance'.annotations :
                       /\ k \in DOMAIN sts'.annotations
                       /\ sts'.annotations[k] = instance'.annotations[k]]_vars

\* C8, as claimed: the object Build returns and the object after every
\* successful Update carry exactly one controller reference, to the instance.
C8_EveryOutputOwned ==
    (exists /\ lastOp \in Updates \cup {"Build"} /\ ~lastErr)
        => OneControllerRef(sts.ownerReferences, instance)

\* C8, amended: Build sets the controller reference on the claim template only,
\* the StatefulSet it returns carries none; after every successful Update the
\* StatefulSet carries exactly one controller reference, to the instance;
\* Updates in succession neither add a reference nor change one; and Build and
\* Update return an error exactly when the reference cannot be set.
C8_OwnedAfterUpdate ==
    /\ [](lastOp = "Build" =>
             /\ lastErr <=> ~scheme
             /\ ~lastErr =>
                   /\ sts.ownerReferences = <<>>
                   /\ Len(sts.spec.volumeClaimTemplates) = 1
                   /\ OneControllerRef(sts.spec.volumeClaimTemplates[1].ownerReferences,
                                       instance))
    /\ [](lastOp \in Updates =>
             /\ lastErr <=> (~scheme \/ OwnedByAnother(sts.ownerReferences, instance))
             /\ ~lastErr => OneControllerRef(sts.ownerReferences, instance))
    /\ [][(lastOp \in Updates /\ lastOp' \in Updates) =>
             (sts'.ownerReferences = sts.ownerReferences)]_vars

\* A successful Update has run on an object that another party also owns.
C8_Witness ==
    /\ lastOp \in Updates
    /\ ~lastErr
    /\ Len(sts.ownerReferences) = 2
    /\ OneControllerRef(sts.ownerReferences, instance)

\* The mutable fields of the pod template hold what the instance asks for.
MutableApplied(s, inst) ==
    LET pod == s.spec.template.spec
    IN  /\ pod.containers[1].resources = inst.resources
        /\ pod.containers[1].image = inst.image
        /\ pod.initContainers[1].image = inst.image
        /\ pod.imagePullSecrets =
               (IF inst.imagePullSecret = "" THEN <<>> ELSE <<inst.imagePullSecret>>)
        /\ pod.affinity = inst.affinity
        /\ pod.tolerations = inst.tolerations

\* C10: an Update for an instance whose memory limit is below its memory
\* request returns no error when the controller reference can be set, applies
\* every mutable field and logs exactly one warning; one whose memory limit
\* equals its memory request logs none.
C10_MemoryMismatchWarnsOnce ==
    lastOp \in Updates =>
        LET limit   == Memory(instance.resources.limits)
            request == Memory(instance.resources.requests)
        IN  /\ (limit < request /\ scheme
                  /\ ~OwnedByAnother(sts.ownerReferences, instance)) =>
                   /\ ~lastErr
                   /\ warnings = 1
                   /\ MutableApplied(sts, instance)
            /\ limit = request => warnings = 0

\* An Update for an instance with a memory limit below the request has logged
\* its warning and applied pull secret, affinity and tolerations.
C10_Witness ==
    /\ lastOp \in Updates
    /\ Memory(instance.resources.limits) < Memory(instance.resources.requests)
    /\ warnings = 1
    /\ ~lastErr
    /\ sts.spec.template.spec.imagePullSecrets = <<"regcred">>
    /\ sts.spec.template.spec.affinity # Nil
    /\ sts.spec.template.spec.tolerations # <<>>

----------------------------------------------------------------------------
(* The end-to-end scenario. *)

\* The instance is the one of the scenario: my-cluster, 3 replicas, broker:3.8.9.
ScenarioInstance(inst) ==
    /\ inst.name = "my-cluster"
    /\ inst.replicas = 3
    /\ inst.image = "broker:3.8.9"

\* Build has been followed by a successful Update for the scenario's instance.
ScenarioDone == lastOp = "First" /\ ~lastErr /\ ScenarioInstance(instance)

MainContainer(s) == s.spec.template.spec.containers[1]

DeclaredPorts(c) == {c.ports[i].containerPort : i \in DOMAIN c.ports}

\* What the scenario yields apart from the object's name: 3 replicas, the one
\* claim template "persistence" with ReadWriteOnce alone, the main container's
\* four ports, and the controller reference to my-cluster.
ScenarioShape(s) ==
    /\ s.spec.replicas = Ptr(3)
    /\ Len(s.spec.volumeClaimTemplates) = 1
    /\ s.spec.volumeClaimTemplates[1].name = "persistence"
    /\ s.spec.volumeClaimTemplates[1].accessModes = <<"ReadWriteOnce">>
    /\ MainContainer(s).name = "rabbitmq"
    /\ MainContainer(s).image = "broker:3.8.9"
    /\ Len(MainContainer(s).ports) = 4
    /\ DeclaredPorts(MainContainer(s)) = {4369, 5672, 15672, 15692}
    /\ \E i \in DOMAIN s.ownerReferences :
          /\ s.ownerReferences[i].name = "my-cluster"
          /\ s.ownerReferences[i].kind = "RabbitmqCluster"
          /\ s.ownerReferences[i].controller

\* The pods of the object are the ones the command-line tool addresses.
PodsAsTheToolDerives(s) ==
    \A i \in 0 .. 2 : PodName(s, i) = observe("my-cluster", i)

\* C11 as stated: Build followed by Update for {my-cluster, 3 replicas,
\* broker:3.8.9} produces an object named my-cluster-server with 3 replicas,
\* one claim template "persistence" with ReadWriteOnce alone, a main container
\* with exactly the ports {4369, 5672, 15672, 15692} and an owner reference to
\* my-cluster, and the name is the one the command-line tool derives.
C11_NamedMyClusterServer ==
    ScenarioDone =>
        /\ sts.name = <<"my-cluster", "server">>
        /\ ScenarioShape(sts)
        /\ PodsAsTheToolDerives(sts)

\* C11, amended: Build followed by Update for {my-cluster, 3 replicas,
\* broker:3.8.9} produces an object named my-cluster-rabbitmq-server with 3
\* replicas, one claim template "persistence" with ReadWriteOnce alone, a main
\* container with exactly the ports {4369, 5672, 15672, 15692} and an owner
\* reference to my-cluster, and pod i of that object is the pod the
\* command-line tool derives for the instance.
C11_EndToEndScenario ==
    ScenarioDone =>
        /\ sts.name = <<"my-cluster", "rabbitmq", "server">>
        /\ ScenarioShape(sts)
        /\ PodsAsTheToolDerives(sts)

\* Build and then Update have both run for the scenario's instance.
C11_Witness ==
    /\ ScenarioDone
    /\ instance = BaseInstance
    /\ built = statefulSet(BaseInstance, TRUE).obj
    /\ sts.spec.replicas = Ptr(3)
    /\ Len(sts.ownerReferences) = 1

====
